---- MODULE Spec2Model ----
(***************************************************************************)
(* Model of the photo processing pipeline (workers/tasks.py), its database *)
(* tables (models/database.py) and the queueing script                     *)
(* (scripts/process_photos.py).                                            *)
(*                                                                         *)
(* A run is one execution of process_single_image with its own SQLAlchemy  *)
(* session.  Rows added to a session stay in it until a commit succeeds;   *)
(* a flush that violates a constraint rolls the transaction back and       *)
(* leaves the session unusable (the code never calls session.rollback()).  *)
(* Database calls raise only for these two reasons; capability calls       *)
(* (image conversion, model inference, file reads) may raise at any time.  *)
(***************************************************************************)
EXTENDS Integers, Sequences, FiniteSets, TLC

\* ---------------------------------------------------------------- bounds
NumPhotos == 2
\* runs of the task in one behaviour
MaxRuns == 2
\* further runs in the behaviours that process a photo again after its links exist
MaxReruns == 1
MaxFaces == 2
\* capability calls that misbehave (raise, or return a degraded value) in one behaviour
MaxFaults == 2

\* detections in one call of filter_detected_objects
MaxDetections == 3
\* the values of NOISY_TAG_MAX_INSTANCES tried: 0..MaxInstances
MaxInstances == 2
\* box coordinates in the calls of compute_area_ratio: -1..MaxCoord
MaxCoord == 3
\* photo ids in the rankings given to reciprocal_rank_fusion: 1..MaxItems
MaxItems == 3
\* the page arguments of hybrid_search tried: 1..MaxPage
MaxPage == 2
\* the page_size arguments of hybrid_search tried: 1..MaxPageSize
MaxPageSize == 2

Photos == 1..NumPhotos
Runs == 1..(MaxRuns + MaxReruns)
\* an id that is in no row of the photos table
MissingPhoto == 0

\* ------------------------------------------------------- PhotoState enum
PENDING == "pending"
PREPROCESSING == "preprocessing"
PROCESSING_OBJECTS == "processing_objects"
PROCESSING_EMBEDDINGS == "processing_embeddings"
PROCESSING_OCR == "processing_ocr"
PROCESSING_FACES == "processing_faces"
PROCESSING_HASH == "processing_hash"
CHECKING_DUPLICATES == "checking_duplicates"
COMPLETED == "completed"
PARTIAL == "partial"
FAILED == "failed"

PhotoState ==
    << PENDING, PREPROCESSING, PROCESSING_OBJECTS, PROCESSING_EMBEDDINGS,
       PROCESSING_OCR, PROCESSING_FACES, PROCESSING_HASH, CHECKING_DUPLICATES,
       COMPLETED, PARTIAL, FAILED >>

TerminalStates == {COMPLETED, PARTIAL, FAILED}

\* the names appended to results['steps_completed'] / results['steps_failed']
Steps == <<"preprocessing", "objects", "embeddings", "ocr", "faces", "hash", "duplicates">>
StepSet == {Steps[i] : i \in 1..Len(Steps)}

\* error_message values
NoError == "none"
ModelInitError == "model initialisation failed"
UnboundImageData == "local variable 'image_data' referenced before assignment"
PendingRollback == "session transaction has been rolled back"
PhotoNotFound == "Photo not found"
\* the task has not returned
NoResult == [status |-> "none", error |-> NoError]

\* ------------------------------------------------------ program constants
\* settings.DUPLICATE_THRESHOLD
DUPLICATE_THRESHOLD == 8
\* PhotoHash.pdq_hash is String(64)
PDQ_HASH_COLUMN_LENGTH == 64
\* settings.NOISY_TAG_MAX_INSTANCES
NOISY_TAG_MAX_INSTANCES == 3
\* settings.NOISY_TAG_MIN_CONFIDENCE (0.35), in hundredths
NOISY_TAG_MIN_CONFIDENCE == 35
\* settings.NOISY_TAG_MIN_AREA_RATIO (0.02), in hundredths
NOISY_TAG_MIN_AREA_RATIO == 2
\* settings.NOISY_DETECTION_TAGS
NOISY_DETECTION_TAGS == {"person"}
\* PhotoProcessingTask.retry_kwargs['max_retries']
max_retries == 3
\* settings.SEARCH_TOP_K
SEARCH_TOP_K == 100
\* settings.RRF_K
RRF_K == 60

VARIABLES
    photos,           \* photos table: photo id -> row
    tables,           \* committed rows of the enrichment tables
    pc,               \* position of each run in process_single_image
    photo_id,         \* the photo_id argument of each run
    steps_completed,  \* results['steps_completed'] of each run
    steps_failed,     \* results['steps_failed'] of each run
    new_rows,         \* rows added to each run's session and not yet committed
    needs_rollback,   \* the run's session transaction was rolled back by a failed flush
    written,          \* the states each run has committed to its photo, in order
    result,           \* what the task returned: its 'status' and 'error' ("raised": an
                      \* exception left the task)
    faults,           \* capability calls that have misbehaved so far
    retries,          \* self.request.retries of each run: the retries made so far
    overlapped,       \* history: the photos two runs of which have executed at the same time
    call,             \* a call of one of the pure functions: its arguments and result
    search            \* a call of hybrid_search: its arguments, position and locals

vars == << photos, tables, pc, photo_id, steps_completed, steps_failed,
           new_rows, needs_rollback, written, result, faults, retries, overlapped,
           call, search >>

\* the variables of process_single_image and of the database
pipeline_vars == << photos, tables, pc, photo_id, steps_completed, steps_failed,
                    new_rows, needs_rollback, written, result, faults, retries,
                    overlapped >>

\* ------------------------------------------------------------ utilities
Max(a, b) == IF a >= b THEN a ELSE b
Min(a, b) == IF a <= b THEN a ELSE b
Range(s) == {s[i] : i \in 1..Len(s)}

RECURSIVE SelectSeqIdx(_, _, _)
\* the subsequence of s at the indexes (in order) that are in keep, from i on
SelectSeqIdx(s, keep, i) ==
    IF i > Len(s) THEN << >>
    ELSE (IF i \in keep THEN << s[i] >> ELSE << >>) \o SelectSeqIdx(s, keep, i + 1)

\* --------------------------------------------- workers/object_filtering.py
\* str.lower() on the labels the recognition capability returns
Lower(tag) == CASE tag = "Person" -> "person"
                [] tag = "Cat" -> "cat"
                [] OTHER -> tag

\* area ratios are exact fractions num/den; None is the fraction with den = 0
NoneRatio == [num |-> 0, den |-> 0]
IsNone(ratio) == ratio.den = 0
\* a < b for two fractions with positive denominators
RatioLess(a, b) == a.num * b.den < b.num * a.den
\* `area_ratio or 0.0`
RatioOrZero(ratio) == IF IsNone(ratio) THEN [num |-> 0, den |-> 1] ELSE ratio

NoBBox == [none |-> TRUE]

\* variant: the box is not clamped to the image
compute_area_ratio_unclamped(bbox, image_width, image_height) ==
    IF bbox = NoBBox \/ image_width <= 0 \/ image_height <= 0 THEN NoneRatio
    ELSE IF ~({"x1", "y1", "x2", "y2"} \subseteq DOMAIN bbox
              \/ {"x", "y", "width", "height"} \subseteq DOMAIN bbox) THEN NoneRatio
    ELSE
      LET corners == {"x1", "y1", "x2", "y2"} \subseteq DOMAIN bbox
          x1 == IF corners THEN bbox.x1 ELSE bbox.x
          y1 == IF corners THEN bbox.y1 ELSE bbox.y
          x2 == IF corners THEN bbox.x2 ELSE x1 + bbox.width
          y2 == IF corners THEN bbox.y2 ELSE y1 + bbox.height
          width == Max(0, x2 - x1)
          height == Max(0, y2 - y1)
      IN  IF width = 0 \/ height = 0 THEN [num |-> 0, den |-> 1]
          ELSE [num |-> width * height, den |-> image_width * image_height]

compute_area_ratio(bbox, image_width, image_height) ==
    IF bbox = NoBBox \/ image_width <= 0 \/ image_height <= 0 THEN NoneRatio
    ELSE IF ~({"x1", "y1", "x2", "y2"} \subseteq DOMAIN bbox
              \/ {"x", "y", "width", "height"} \subseteq DOMAIN bbox) THEN NoneRatio
    ELSE
      LET corners == {"x1", "y1", "x2", "y2"} \subseteq DOMAIN bbox
          rx1 == IF corners THEN bbox.x1 ELSE bbox.x
          ry1 == IF corners THEN bbox.y1 ELSE bbox.y
          rx2 == IF corners THEN bbox.x2 ELSE rx1 + bbox.width
          ry2 == IF corners THEN bbox.y2 ELSE ry1 + bbox.height
          x1 == Max(0, Min(image_width, rx1))
          y1 == Max(0, Min(image_height, ry1))
          x2 == Max(0, Min(image_width, rx2))
          y2 == Max(0, Min(image_height, ry2))
          width == Max(0, x2 - x1)
          height == Max(0, y2 - y1)
          image_area == image_width * image_height
      IN  IF width = 0 \/ height = 0 THEN [num |-> 0, den |-> 1]
          ELSE IF image_area <= 0 THEN NoneRatio
          ELSE [num |-> width * height, den |-> image_area]

\* the sort key (confidence, area_ratio or 0.0): a sorts strictly before b
\* under reverse=True
KeyGreater(a, b) ==
    \/ a.confidence > b.confidence
    \/ /\ a.confidence = b.confidence
       /\ RatioLess(RatioOrZero(b.area_ratio), RatioOrZero(a.area_ratio))

RECURSIVE InsertSorted(_, _)
\* insert x after every element that does not sort strictly after it (stable)
InsertSorted(sorted, x) ==
    IF sorted = << >> THEN << x >>
    ELSE IF KeyGreater(x, Head(sorted)) THEN << x >> \o sorted
    ELSE << Head(sorted) >> \o InsertSorted(Tail(sorted), x)

RECURSIVE SortBucket(_)
\* bucket_objects.sort(key=..., reverse=True)
SortBucket(bucket) ==
    IF bucket = << >> THEN << >>
    ELSE InsertSorted(SortBucket(SubSeq(bucket, 1, Len(bucket) - 1)), bucket[Len(bucket)])

\* obj with area_ratio annotated
Annotate(obj, image_width, image_height) ==
    [tag |-> obj.tag, confidence |-> obj.confidence, bbox |-> obj.bbox,
     area_ratio |-> compute_area_ratio(obj.bbox, image_width, image_height)]

\* variant: every label is treated as noisy
IsNoisyAnyLabel(obj) == Lower(obj.tag) \in {Lower(t) : t \in NOISY_DETECTION_TAGS \cup {obj.tag}}

\* line 68: tag_lower in noisy_tags
IsNoisy(obj) == Lower(obj.tag) \in {Lower(t) : t \in NOISY_DETECTION_TAGS}

\* variant: dropped only when both the area and the confidence are low
BelowThresholdsBoth(a) ==
    /\ ~IsNone(a.area_ratio)
    /\ RatioLess(a.area_ratio, [num |-> NOISY_TAG_MIN_AREA_RATIO, den |-> 100])
    /\ a.confidence < NOISY_TAG_MIN_CONFIDENCE

\* a noisy detection dropped by the area or the confidence threshold
BelowThresholds(a) ==
    \/ /\ ~IsNone(a.area_ratio)
       /\ RatioLess(a.area_ratio, [num |-> NOISY_TAG_MIN_AREA_RATIO, den |-> 100])
    \/ a.confidence < NOISY_TAG_MIN_CONFIDENCE

RECURSIVE BucketKeys(_, _)
\* keys of noisy_buckets in insertion order
BucketKeys(annotated, seen) ==
    IF annotated = << >> THEN << >>
    ELSE LET a == Head(annotated)
             k == Lower(a.tag)
         IN  IF IsNoisy(a) /\ ~BelowThresholds(a) /\ k \notin seen
             THEN << k >> \o BucketKeys(Tail(annotated), seen \cup {k})
             ELSE BucketKeys(Tail(annotated), seen)

RECURSIVE ExtendBuckets(_, _, _)
\* the second loop of filter_detected_objects: result is
\* [objects |-> the kept noisy detections, dropped |-> the count cut by the cap]
ExtendBuckets(annotated, keys, max_instances) ==
    IF keys = << >> THEN [objects |-> << >>, dropped |-> 0]
    ELSE
      LET InBucket(i) == /\ IsNoisy(annotated[i])
                         /\ ~BelowThresholds(annotated[i])
                         /\ Lower(annotated[i].tag) = Head(keys)
          bucket == SortBucket(SelectSeqIdx(annotated, {i \in DOMAIN annotated : InBucket(i)}, 1))
          rest == ExtendBuckets(annotated, Tail(keys), max_instances)
      IN  IF max_instances > 0
          THEN [objects |-> SubSeq(bucket, 1, Min(Len(bucket), max_instances)) \o rest.objects,
                dropped |-> Max(0, Len(bucket) - max_instances) + rest.dropped]
          ELSE [objects |-> bucket \o rest.objects, dropped |-> rest.dropped]

\* filter_detected_objects with settings.NOISY_TAG_MAX_INSTANCES = max_instances;
\* returns [objects |-> filtered_objects, dropped |-> filtered_out_count]
filter_detected_objects_with(detected_objects, image_width, image_height, max_instances) ==
    LET annotated == [i \in 1..Len(detected_objects) |->
                          Annotate(detected_objects[i], image_width, image_height)]
        PassThrough(i) == ~IsNoisy(annotated[i])
        Thresholded(i) == IsNoisy(annotated[i]) /\ BelowThresholds(annotated[i])
        noisy == ExtendBuckets(annotated, BucketKeys(annotated, {}), max_instances)
    IN  [objects |-> SelectSeqIdx(annotated, {i \in DOMAIN annotated : PassThrough(i)}, 1) \o noisy.objects,
         dropped |-> Len(SelectSeqIdx(annotated, {i \in DOMAIN annotated : Thresholded(i)}, 1)) + noisy.dropped]

\* filter_detected_objects under the settings as configured
filter_detected_objects(detected_objects, image_width, image_height) ==
    filter_detected_objects_with(detected_objects, image_width, image_height,
                                 NOISY_TAG_MAX_INSTANCES)

\* ------------------------------------------------ capability outputs (workers/ai_models.py)
\* a hex digest: the sequence of its hex digits, the first n of them `digit`,
\* the others 0
Digest(digit, n, length) == [i \in 1..length |-> IF i <= n THEN digit ELSE 0]
EmptyDigest == << >>

\* what extract_text may return: None, blank text, text
NoText == "None"
\* len(extracted_text.strip())
StrippedLen(t) == CASE t = " " -> 0
                    [] t = "text" -> 4
                    [] OTHER -> 0

\* what the capabilities return for the image file of a photo when they work:
\* photo 1 shows people and two cats, carries text and faces; the other photos
\* show nothing and hash to a digest 1 bit, 12 bits in 3 digits, or 36 bits
\* in 9 digits away from photo 1's
Image(id) ==
    IF id = 1
    THEN [image_size |-> << 10, 10 >>,
          objects |-> << [tag |-> "person", confidence |-> 50,
                          bbox |-> [x1 |-> 0, y1 |-> 0, x2 |-> 5, y2 |-> 5]],
                         [tag |-> "cat", confidence |-> 80, bbox |-> NoBBox],
                         [tag |-> "person", confidence |-> 90,
                          bbox |-> [x |-> 2, y |-> 2, width |-> 6, height |-> 6]],
                         [tag |-> "person", confidence |-> 20,
                          bbox |-> [x1 |-> 0, y1 |-> 0, x2 |-> 10, y2 |-> 10]],
                         [tag |-> "cat", confidence |-> 85,
                          bbox |-> [x1 |-> 1, y1 |-> 1, x2 |-> 4, y2 |-> 4]] >>,
          text |-> "text",
          faces |-> MaxFaces,
          digests |-> {Digest(0, 0, PDQ_HASH_COLUMN_LENGTH)}]
    ELSE [image_size |-> << 10, 10 >>,
          objects |-> << >>,
          text |-> " ",
          faces |-> 0,
          digests |-> {Digest(1, 1, PDQ_HASH_COLUMN_LENGTH),
                       Digest(15, 3, PDQ_HASH_COLUMN_LENGTH),
                       Digest(15, 9, PDQ_HASH_COLUMN_LENGTH)}]

\* the ways a capability call may misbehave, while the budget lasts
Faults(kinds) == {"none"} \cup (IF faults < MaxFaults THEN kinds ELSE {})

\* TagCategoryMapping rows: tag -> category_id (None when unmapped)
NoCategory == "None"
TagCategory(tag) == IF tag = "cat" THEN "animals" ELSE NoCategory

\* ------------------------------------------- database tables and sessions
NoRows ==
    [detected_objects |-> {}, photo_tags |-> {}, semantic_embeddings |-> {},
     ocr_texts |-> {}, faces |-> {}, photo_hashes |-> {}, duplicates |-> {}]
TableNames == DOMAIN NoRows

\* the tables with the rows of `rows` inserted
Insert(into, rows) == [t \in TableNames |-> into[t] \cup rows[t]]

\* variant: tables without unique constraints
UniqueViolationNever(committed, rows) == FALSE

\* UniqueConstraint("photo_id", "tag") on photo_tags; unique=True on the photo_id
\* of semantic_embeddings, ocr_texts and photo_hashes
UniqueViolation(committed, rows) ==
    LET all == Insert(committed, rows)
    IN  \/ \E a \in rows.photo_tags : \E b \in all.photo_tags :
              a # b /\ a.photo_id = b.photo_id /\ a.tag = b.tag
        \/ \E t \in {"semantic_embeddings", "ocr_texts", "photo_hashes"} :
              \E a \in rows[t] : \E b \in all[t] : a # b /\ a.photo_id = b.photo_id

\* pdq_hash is String(64): a longer value is refused by the database
ValueTooLong(rows) ==
    \E h \in rows.photo_hashes : Len(h.pdq_hash) > PDQ_HASH_COLUMN_LENGTH

\* the INSERTs of a flush fail
FlushFails(s) == UniqueViolation(s.tables, s.new) \/ ValueTooLong(s.new)

\* the database and the session as run r sees them; `raised` tells whether
\* the last call on the session raised
Session(r) ==
    [photos |-> photos, tables |-> tables, new |-> new_rows[r],
     needs_rollback |-> needs_rollback[r], written |-> written[r], raised |-> FALSE]

\* an exception was caught: execution goes on with the session as it is
Caught(s) == [s EXCEPT !.raised = FALSE]

\* session.add(row)
Add(s, table, rows) == [s EXCEPT !.new[table] = @ \cup rows]

\* variant: one transaction for the whole run, a failed flush also takes back
\* what the run committed before
CommitAllOrNothing(s) ==
    IF s.needs_rollback THEN [s EXCEPT !.raised = TRUE]
    ELSE IF FlushFails(s)
         THEN LET mine == UNION { {row.run : row \in s.new[t]} : t \in TableNames }
              IN  [s EXCEPT !.tables = [t \in TableNames |->
                                           {row \in s.tables[t] : row.run \notin mine}],
                            !.needs_rollback = TRUE, !.new = NoRows, !.raised = TRUE]
         ELSE [s EXCEPT !.tables = Insert(@, s.new), !.new = NoRows]

\* session.commit(): flushes the rows of the session; a failed flush rolls the
\* transaction back (the new rows with it) and the session stays unusable
\* because nothing calls session.rollback()
Commit(s) ==
    IF s.needs_rollback THEN [s EXCEPT !.raised = TRUE]
    ELSE IF FlushFails(s)
         THEN [s EXCEPT !.needs_rollback = TRUE, !.new = NoRows, !.raised = TRUE]
         ELSE [s EXCEPT !.tables = Insert(@, s.new), !.new = NoRows]

update_photo_state(s, id, state, error_message) ==
    IF id \notin DOMAIN s.photos THEN s
    ELSE LET c == Commit(s)
         IN  IF c.raised THEN c
             ELSE [c EXCEPT
                     !.photos[id].state = state,
                     !.photos[id].error_message =
                         IF error_message # NoError THEN error_message ELSE @,
                     !.photos[id].processed_at =
                         IF state \in TerminalStates THEN TRUE ELSE @,
                     !.written = Append(@, state)]

\* no function is being called, no search is under way
NoCall == [fn |-> "none"]
NoSearch == [pc |-> "none"]

\* ------------------------------------------------------------------ Init
\* the photos are registered and pending, nothing has run; photo p was
\* created on day p
Idle ==
    /\ photos = [p \in Photos |->
                    [state |-> PENDING, error_message |-> NoError,
                     processed_at |-> FALSE, thumbnail_path |-> FALSE,
                     created_at |-> p]]
    /\ tables = NoRows
    /\ pc = [r \in Runs |-> "idle"]
    /\ photo_id = [r \in Runs |-> MissingPhoto]
    /\ steps_completed = [r \in Runs |-> {}]
    /\ steps_failed = [r \in Runs |-> {}]
    /\ new_rows = [r \in Runs |-> NoRows]
    /\ needs_rollback = [r \in Runs |-> FALSE]
    /\ written = [r \in Runs |-> << >>]
    /\ result = [r \in Runs |-> NoResult]
    /\ faults = 0
    /\ retries = [r \in Runs |-> 0]
    /\ overlapped = {}
    /\ search = NoSearch

Init == Idle /\ call = NoCall

\* ------------------------------------------------- process_single_image
\* run r is executing
Active(r) == pc[r] \notin {"idle", "queued", "done"}

\* run r goes on at next_pc with the session and database as in s
Continue(r, s, next_pc, completed, failed, returned, fault) ==
    /\ photos' = s.photos
    /\ tables' = s.tables
    /\ new_rows' = [new_rows EXCEPT ![r] = s.new]
    /\ needs_rollback' = [needs_rollback EXCEPT ![r] = s.needs_rollback]
    /\ written' = [written EXCEPT ![r] = s.written]
    /\ pc' = [pc EXCEPT ![r] = next_pc]
    /\ steps_completed' = [steps_completed EXCEPT ![r] = completed]
    /\ steps_failed' = [steps_failed EXCEPT ![r] = failed]
    /\ result' = [result EXCEPT ![r] = returned]
    /\ faults' = IF fault = "none" THEN faults ELSE faults + 1
    /\ overlapped' = IF /\ next_pc # "done"
                        /\ \E q \in Runs \ {r} : Active(q) /\ photo_id[q] = photo_id[r]
                     THEN overlapped \cup {photo_id[r]} ELSE overlapped
    /\ UNCHANGED << photo_id, retries, call, search >>

\* finally: session.close() drops what the session still holds
Close(s) == [s EXCEPT !.new = NoRows, !.needs_rollback = FALSE]

\* the task returns (or raises, status "raised")
Return(r, s, failed, returned, fault) ==
    Continue(r, Close(s), "done", steps_completed[r], failed, returned, fault)

\* variant: the handler returns without marking the photo
FatalErrorUnmarked(r, s, failed, error_message, fault) ==
    Return(r, Caught(s), failed, [status |-> "failed", error |-> error_message], fault)

\* the outer `except Exception` handler: mark the photo failed and return;
\* an exception raised by the handler itself leaves the task
FatalError(r, s, failed, error_message, fault) ==
    LET f == update_photo_state(Caught(s), photo_id[r], FAILED, error_message)
    IN  Return(r, f, failed,
               [status |-> IF f.raised THEN "raised" ELSE "failed", error |-> error_message],
               fault)

\* a stage ended: outcome "completed" or "failed" is appended to the list of
\* that name, any other outcome to neither
StageEnds(r, s, step, outcome, next_pc, fault) ==
    Continue(r, Caught(s), next_pc,
             IF outcome = "completed" THEN steps_completed[r] \cup {step}
                                      ELSE steps_completed[r],
             IF outcome = "failed" THEN steps_failed[r] \cup {step}
                                   ELSE steps_failed[r],
             result[r], fault)

\* the stage body ended by a commit: completed unless the commit raised
CommitEnds(r, s, step, next_pc, fault) ==
    LET c == Commit(s)
    IN  StageEnds(r, c, step, IF c.raised THEN "failed" ELSE "completed", next_pc, fault)

\* scripts/process_photos.py: a photo that is pending or failed is queued
QueuePhoto(r, id) ==
    /\ pc[r] = "idle"
    /\ \A q \in Runs : q < r => pc[q] # "idle"
    /\ photos[id].state \in {PENDING, FAILED}
    /\ pc' = [pc EXCEPT ![r] = "queued"]
    /\ photo_id' = [photo_id EXCEPT ![r] = id]
    /\ UNCHANGED << photos, tables, steps_completed, steps_failed, new_rows,
                    needs_rollback, written, result, faults, retries, overlapped,
                    call, search >>

\* the task is called with an id that is in no row of photos
QueueMissing(r) ==
    /\ pc[r] = "idle"
    /\ \A q \in Runs : q < r => pc[q] # "idle"
    /\ pc' = [pc EXCEPT ![r] = "queued"]
    /\ photo_id' = [photo_id EXCEPT ![r] = MissingPhoto]
    /\ UNCHANGED << photos, tables, steps_completed, steps_failed, new_rows,
                    needs_rollback, written, result, faults, retries, overlapped,
                    call, search >>

\* lines 57-76: look the photo up, initialise the models; the queue hands the
\* runs out in the order they were queued, at most `workers` execute at a time
Start(r, workers) ==
    /\ pc[r] = "queued"
    /\ \A q \in Runs : q < r => pc[q] # "queued"
    /\ Cardinality({q \in Runs : Active(q)}) < workers
    /\ IF photo_id[r] \notin DOMAIN photos
       THEN Return(r, Session(r), steps_failed[r],
                   [status |-> "failed", error |-> PhotoNotFound], "none")
       ELSE \E fault \in Faults({"raise"}) :
              IF fault = "none"
              THEN Continue(r, Session(r), "preprocessing", {}, {}, result[r], fault)
              ELSE FatalError(r, Session(r), steps_failed[r], ModelInitError, fault)

\* lines 78-100: step 1, and the read of image_data after it
Preprocessing(r) ==
    /\ pc[r] = "preprocessing"
    /\ LET s == update_photo_state(Session(r), photo_id[r], PREPROCESSING, NoError)
       IN  \E fault \in Faults({"raise"}) :
             IF fault = "none" /\ ~s.raised
             THEN LET c == Commit(s)
                  IN  IF c.raised
                      THEN StageEnds(r, c, "preprocessing", "failed", "objects", fault)
                      ELSE StageEnds(r, [c EXCEPT !.photos[photo_id[r]].thumbnail_path = TRUE],
                                     "preprocessing", "completed", "objects", fault)
             ELSE \* image_data was never assigned: line 100 raises outside the
                  \* step's try block
                  FatalError(r, s, steps_failed[r] \cup {"preprocessing"},
                             UnboundImageData, fault)

RECURSIVE UniqueTagsFirstSeen(_, _)
\* variant: the first detection of a tag is kept, whatever its confidence
UniqueTagsFirstSeen(objects, unique_tags) ==
    IF objects = << >> THEN unique_tags
    ELSE LET obj == Head(objects)
             tag == obj.tag
         IN  UniqueTagsFirstSeen(Tail(objects),
               IF tag \notin DOMAIN unique_tags
               THEN [t \in DOMAIN unique_tags \cup {tag} |->
                        IF t = tag THEN obj ELSE unique_tags[t]]
               ELSE unique_tags)

RECURSIVE UniqueTags(_, _)
\* lines 121-126: per tag, the first detection with the highest confidence
UniqueTags(objects, unique_tags) ==
    IF objects = << >> THEN unique_tags
    ELSE LET obj == Head(objects)
             tag == obj.tag
         IN  UniqueTags(Tail(objects),
               IF tag \notin DOMAIN unique_tags
                  \/ obj.confidence > unique_tags[tag].confidence
               THEN [t \in DOMAIN unique_tags \cup {tag} |->
                        IF t = tag THEN obj ELSE unique_tags[t]]
               ELSE unique_tags)

\* lines 134-142: one PhotoTag per unique tag
PhotoTagRows(r, unique_tags) ==
    { [photo_id |-> photo_id[r], tag |-> tag,
       confidence |-> unique_tags[tag].confidence,
       category_id |-> TagCategory(tag), run |-> r] : tag \in DOMAIN unique_tags }

\* lines 144-154: one DetectedObject per filtered detection
DetectedObjectRows(r, filtered_objects) ==
    { [photo_id |-> photo_id[r], tag |-> filtered_objects[i].tag,
       confidence |-> filtered_objects[i].confidence,
       category_id |-> TagCategory(filtered_objects[i].tag),
       bbox |-> filtered_objects[i].bbox, run |-> r, idx |-> i] :
      i \in 1..Len(filtered_objects) }

\* lines 102-169: step 2
Objects(r) ==
    /\ pc[r] = "objects"
    /\ LET s == update_photo_state(Session(r), photo_id[r], PROCESSING_OBJECTS, NoError)
           image == Image(photo_id[r])
           filtered == filter_detected_objects(
                           image.objects, image.image_size[1], image.image_size[2])
           unique_tags == UniqueTags(filtered.objects, << >>)
       IN  \E fault \in Faults({"raise"}) :
             IF s.raised \/ fault = "raise"
             THEN StageEnds(r, s, "objects", "failed", "embeddings", fault)
             ELSE CommitEnds(r,
                      Add(Add(s, "photo_tags", PhotoTagRows(r, unique_tags)),
                          "detected_objects", DetectedObjectRows(r, filtered.objects)),
                      "objects", "embeddings", fault)

\* lines 171-194: step 3
Embeddings(r) ==
    /\ pc[r] = "embeddings"
    /\ LET s == update_photo_state(Session(r), photo_id[r], PROCESSING_EMBEDDINGS, NoError)
       IN  \E fault \in Faults({"raise"}) :
             IF s.raised \/ fault = "raise"
             THEN StageEnds(r, s, "embeddings", "failed", "ocr", fault)
             ELSE CommitEnds(r, Add(s, "semantic_embeddings",
                                    {[photo_id |-> photo_id[r], run |-> r]}),
                             "embeddings", "ocr", fault)

\* variant: no text is a failure of the stage
OCRNoTextFails(r) ==
    /\ pc[r] = "ocr"
    /\ LET s == update_photo_state(Session(r), photo_id[r], PROCESSING_OCR, NoError)
       IN  \E fault \in Faults({"raise", "no text"}) :
             LET extracted_text == IF fault = "no text" THEN NoText
                                   ELSE Image(photo_id[r]).text
             IN  IF s.raised \/ fault = "raise"
                 THEN StageEnds(r, s, "ocr", "failed", "faces", fault)
                 ELSE IF extracted_text # NoText /\ StrippedLen(extracted_text) > 0
                 THEN CommitEnds(r, Add(s, "ocr_texts",
                                        {[photo_id |-> photo_id[r],
                                          extracted_text |-> extracted_text,
                                          language |-> "en", run |-> r]}),
                                 "ocr", "faces", fault)
                 ELSE StageEnds(r, s, "ocr", "failed", "faces", fault)

\* lines 196-231: step 4
OCR(r) ==
    /\ pc[r] = "ocr"
    /\ LET s == update_photo_state(Session(r), photo_id[r], PROCESSING_OCR, NoError)
       IN  \E fault \in Faults({"raise", "no text"}) :
             LET extracted_text == IF fault = "no text" THEN NoText
                                   ELSE Image(photo_id[r]).text
             IN  IF s.raised \/ fault = "raise"
                 THEN StageEnds(r, s, "ocr", "failed", "faces", fault)
                 ELSE IF extracted_text # NoText /\ StrippedLen(extracted_text) > 0
                 THEN CommitEnds(r, Add(s, "ocr_texts",
                                        {[photo_id |-> photo_id[r],
                                          extracted_text |-> extracted_text,
                                          language |-> "en", run |-> r]}),
                                 "ocr", "faces", fault)
                 ELSE StageEnds(r, s, "ocr", "completed", "faces", fault)

\* face_data of the faces found, the first `added` of them added to the session
FaceRows(r, added) ==
    { [photo_id |-> photo_id[r], idx |-> i, cluster_id |-> "None", run |-> r] :
      i \in 1..added }

\* lines 233-255: step 5; when the call or the loop raises, the faces before
\* the one that raised are in the session
Faces(r) ==
    /\ pc[r] = "faces"
    /\ LET s == update_photo_state(Session(r), photo_id[r], PROCESSING_FACES, NoError)
           found == Image(photo_id[r]).faces
       IN  \E fault \in Faults({"raise"}) :
             IF s.raised THEN StageEnds(r, s, "faces", "failed", "hash", fault)
             ELSE IF fault = "raise"
             THEN \E added \in 0..Max(0, found - 1) :
                    StageEnds(r, Add(s, "faces", FaceRows(r, added)),
                              "faces", "failed", "hash", fault)
             ELSE CommitEnds(r, Add(s, "faces", FaceRows(r, found)), "faces", "hash", fault)

\* lines 257-278: step 6
Hash(r) ==
    /\ pc[r] = "hash"
    /\ LET s == update_photo_state(Session(r), photo_id[r], PROCESSING_HASH, NoError)
       IN  \E fault \in Faults({"raise", "empty", "short", "long"}) :
           \E digest \in Image(photo_id[r]).digests :
             LET hash_hex ==
                   CASE fault = "empty" -> EmptyDigest
                     [] fault = "short" -> SubSeq(digest, 1, PDQ_HASH_COLUMN_LENGTH - 1)
                     [] fault = "long" -> digest \o << 0 >>
                     [] OTHER -> digest
             IN  IF s.raised \/ fault = "raise"
                 THEN StageEnds(r, s, "hash", "failed", "duplicates", fault)
                 ELSE IF hash_hex # EmptyDigest
                 THEN CommitEnds(r, Add(s, "photo_hashes",
                                        {[photo_id |-> photo_id[r],
                                          pdq_hash |-> hash_hex, run |-> r]}),
                                 "hash", "duplicates", fault)
                 ELSE StageEnds(r, s, "hash", "neither", "duplicates", fault)

\* line 296: the positions at which the two strings differ, up to the shorter
Distance(h1, h2) ==
    Cardinality({i \in 1..Min(Len(h1), Len(h2)) : h1[i] # h2[i]})

\* variant: only the orientation (a, b) is looked up
ExistingLinkOneOrientation(s, a, b) ==
    \E d \in s.tables.duplicates \cup s.new.duplicates :
        d.photo_id_1 = a /\ d.photo_id_2 = b

\* lines 300-303: a link of the pair in either orientation, as the session
\* sees it (committed rows and its own)
ExistingLink(s, a, b) ==
    \E d \in s.tables.duplicates \cup s.new.duplicates :
        \/ d.photo_id_1 = a /\ d.photo_id_2 = b
        \/ d.photo_id_1 = b /\ d.photo_id_2 = a

\* lines 289-312: the links the loop adds
NewLinks(r, s, current_hash) ==
    { [photo_id_1 |-> photo_id[r], photo_id_2 |-> other.photo_id,
       hamming_distance |-> Distance(current_hash.pdq_hash, other.pdq_hash),
       run |-> r] :
      other \in { o \in s.tables.photo_hashes :
                    /\ o.photo_id # photo_id[r]
                    /\ Distance(current_hash.pdq_hash, o.pdq_hash) <= DUPLICATE_THRESHOLD
                    /\ ~ExistingLink(s, photo_id[r], o.photo_id) } }

\* lines 280-312: step 7 up to its commit
Duplicates(r) ==
    /\ pc[r] = "duplicates"
    /\ LET s == update_photo_state(Session(r), photo_id[r], CHECKING_DUPLICATES, NoError)
           own == {h \in s.tables.photo_hashes : h.photo_id = photo_id[r]}
       IN  IF s.raised THEN StageEnds(r, s, "duplicates", "failed", "final", "none")
           ELSE IF own = {} THEN StageEnds(r, s, "duplicates", "neither", "final", "none")
           ELSE \E current_hash \in own :
                  Continue(r, Add(s, "duplicates", NewLinks(r, s, current_hash)),
                           "duplicates_commit", steps_completed[r], steps_failed[r],
                           result[r], "none")

\* lines 314-321: the commit of step 7
DuplicatesCommit(r) ==
    /\ pc[r] = "duplicates_commit"
    /\ CommitEnds(r, Session(r), "duplicates", "final", "none")

\* lines 323-332
FinalState(completed, failed) ==
    IF Cardinality(failed) = 0 THEN COMPLETED
    ELSE IF Cardinality(completed) > 0 THEN PARTIAL
    ELSE FAILED

\* lines 323-346: the final state is written and the results are returned; an
\* exception raised by the write goes to the outer handler
Final(r) ==
    /\ pc[r] = "final"
    /\ LET final_state == FinalState(steps_completed[r], steps_failed[r])
           s == update_photo_state(Session(r), photo_id[r], final_state, NoError)
       IN  IF s.raised
           THEN FatalError(r, s, steps_failed[r], PendingRollback, "none")
           ELSE Return(r, s, steps_failed[r],
                       [status |-> final_state, error |-> NoError], "none")

Step(r, workers) ==
    \/ Start(r, workers)
    \/ Preprocessing(r)
    \/ Objects(r)
    \/ Embeddings(r)
    \/ OCR(r)
    \/ Faces(r)
    \/ Hash(r)
    \/ Duplicates(r)
    \/ DuplicatesCommit(r)
    \/ Final(r)

\* the queue and the workers: the run slots `runs` are used, `workers` runs
\* execute at a time
Pipeline(runs, workers) ==
    \/ \E r \in runs : \E id \in Photos : QueuePhoto(r, id)
    \/ \E r \in runs : QueueMissing(r)
    \/ \E r \in runs : Step(r, workers)

\* one worker process: the queued runs execute one at a time
Next == Pipeline(1..MaxRuns, 1)

Spec == Init /\ [][Next]_vars

\* a worker pool: every queued run may start at once
NextParallel == Pipeline(1..MaxRuns, MaxRuns)

SpecParallel == Init /\ [][NextParallel]_vars

\* one worker process and photos that are queued again
NextRerun == Pipeline(Runs, 1)

SpecRerun == Init /\ [][NextRerun]_vars

\* autoretry_for = (Exception,) with max_retries: an exception that left the
\* task makes the job system queue the same task again, after a countdown,
\* until max_retries retries were made; the retry starts from line 57
Retry(r) ==
    /\ pc[r] = "done"
    /\ result[r].status = "raised"
    /\ retries[r] < max_retries
    /\ retries' = [retries EXCEPT ![r] = @ + 1]
    /\ pc' = [pc EXCEPT ![r] = "queued"]
    /\ steps_completed' = [steps_completed EXCEPT ![r] = {}]
    /\ steps_failed' = [steps_failed EXCEPT ![r] = {}]
    /\ written' = [written EXCEPT ![r] = << >>]
    /\ result' = [result EXCEPT ![r] = NoResult]
    /\ UNCHANGED << photos, tables, photo_id, new_rows, needs_rollback, faults,
                    overlapped, call, search >>

\* one worker process and the retries of the job system
NextRetry == Pipeline(1..MaxRuns, 1) \/ \E r \in 1..MaxRuns : Retry(r)

SpecRetry == Init /\ [][NextRetry]_vars

\* ------------------------------------------- calls of the pure functions
\* the detections recognize_objects may return for an image of 10 x 10
Detections ==
    [tag : {"person", "Person", "cat"},
     confidence : {30, NOISY_TAG_MIN_CONFIDENCE, 90},
     bbox : {NoBBox,
             [x1 |-> 0, y1 |-> 0, x2 |-> 1, y2 |-> 1],
             [x1 |-> 3, y1 |-> 3, x2 |-> 4, y2 |-> 5],
             [x |-> 2, y |-> 2, width |-> 6, height |-> 6]}]

DetectionLists == UNION { [1..n -> Detections] : n \in 0..MaxDetections }

\* a call of filter_detected_objects on an image of 10 x 10
InitFilter ==
    /\ Idle
    /\ \E d \in DetectionLists : \E n \in 0..MaxInstances :
          call = [fn |-> "filter_detected_objects", detected_objects |-> d,
                  image_width |-> 10, image_height |-> 10, max_instances |-> n,
                  returned |-> FALSE]

FilterDetectedObjects ==
    /\ call.fn = "filter_detected_objects" /\ ~call.returned
    /\ LET out == filter_detected_objects_with(call.detected_objects, call.image_width,
                                                call.image_height, call.max_instances)
       IN  call' = [fn |-> call.fn, detected_objects |-> call.detected_objects,
                    image_width |-> call.image_width, image_height |-> call.image_height,
                    max_instances |-> call.max_instances, returned |-> TRUE,
                    filtered_objects |-> out.objects, filtered_out_count |-> out.dropped]
    /\ UNCHANGED << pipeline_vars, search >>

NextFilter == FilterDetectedObjects

SpecFilter == InitFilter /\ [][NextFilter]_vars

\* boxes in the two formats compute_area_ratio accepts; the origin+size boxes
\* include negative sizes
Coords == (0 - 1)..MaxCoord
CornerBoxes == [x1 : Coords, y1 : Coords, x2 : Coords, y2 : Coords]
SizeBoxes == [x : Coords, y : Coords, width : Coords, height : Coords]
\* image widths and heights, the non-positive ones included
ImageDims == {0 - 1, 0, 2, MaxCoord}

InitAreaRatio ==
    /\ Idle
    /\ \E b \in CornerBoxes \cup SizeBoxes : \E w \in ImageDims : \E h \in ImageDims :
          call = [fn |-> "compute_area_ratio", bbox |-> b, image_width |-> w,
                  image_height |-> h, returned |-> FALSE]

ComputeAreaRatio ==
    /\ call.fn = "compute_area_ratio" /\ ~call.returned
    /\ call' = [fn |-> call.fn, bbox |-> call.bbox, image_width |-> call.image_width,
                image_height |-> call.image_height, returned |-> TRUE,
                ratio |-> compute_area_ratio(call.bbox, call.image_width,
                                             call.image_height)]
    /\ UNCHANGED << pipeline_vars, search >>

NextAreaRatio == ComputeAreaRatio

SpecAreaRatio == InitAreaRatio /\ [][NextAreaRatio]_vars

\* ------------------------------------------- services/search_service.py
\* scores are exact fractions num/den with den > 0; a ranking is a sequence of
\* (photo_id, score) entries
Zero == [num |-> 0, den |-> 1]
Plus(a, b) == [num |-> a.num * b.den + b.num * a.den, den |-> a.den * b.den]
Entry(id, score) == [photo_id |-> id, score |-> score]
IdsOf(results) == {results[i].photo_id : i \in 1..Len(results)}

\* variant: ranks counted from 0
RanksFromZero(results) ==
    [id \in IdsOf(results) |->
        (CHOOSE i \in 1..Len(results) :
            /\ results[i].photo_id = id
            /\ \A j \in (i + 1)..Len(results) : results[j].photo_id # id) - 1]

\* {photo_id: rank for rank, (photo_id, _) in enumerate(results, 1)}: a later
\* entry of the same id replaces an earlier one
Ranks(results) ==
    [id \in IdsOf(results) |->
        CHOOSE i \in 1..Len(results) :
            /\ results[i].photo_id = id
            /\ \A j \in (i + 1)..Len(results) : results[j].photo_id # id]

\* the orders in which a set can be iterated
Orders(set) ==
    {order \in [1..Cardinality(set) -> set] : \A id \in set : \E i \in DOMAIN order : order[i] = id}

RECURSIVE InsertByScore(_, _)
\* insert x after every entry whose score is not lower (stable, descending)
InsertByScore(sorted, x) ==
    IF sorted = << >> THEN << x >>
    ELSE IF RatioLess(Head(sorted).score, x.score) THEN << x >> \o sorted
    ELSE << Head(sorted) >> \o InsertByScore(Tail(sorted), x)

RECURSIVE SortByScore(_)
\* sorted(items, key=lambda x: x[1], reverse=True)
SortByScore(items) ==
    IF items = << >> THEN << >>
    ELSE InsertByScore(SortByScore(SubSeq(items, 1, Len(items) - 1)), items[Len(items)])

\* `order` is the iteration order of the set all_photo_ids
reciprocal_rank_fusion(keyword_results, semantic_results, k, order) ==
    LET keyword_ranks == Ranks(keyword_results)
        semantic_ranks == Ranks(semantic_results)
        rrf_score(id) ==
            Plus(IF id \in DOMAIN keyword_ranks
                 THEN Plus(Zero, [num |-> 1, den |-> k + keyword_ranks[id]]) ELSE Zero,
                 IF id \in DOMAIN semantic_ranks
                 THEN [num |-> 1, den |-> k + semantic_ranks[id]] ELSE Zero)
    IN  SortByScore([i \in 1..Len(order) |-> Entry(order[i], rrf_score(order[i]))])

\* rankings of distinct photo ids, as keyword_search and semantic_search
\* return them; the scores of the entries fall with the position
Items == 1..MaxItems
Rankings ==
    UNION { {[i \in 1..n |-> Entry(ids[i], [num |-> n + 1 - i, den |-> n + 1])] :
                ids \in {f \in [1..n -> Items] :
                            \A i \in 1..n : \A j \in 1..n : f[i] = f[j] => i = j}} :
            n \in 0..MaxItems }

InitFusion ==
    /\ Idle
    /\ \E kw \in Rankings : \E sem \in Rankings : \E k \in {0, 1, RRF_K} :
          call = [fn |-> "reciprocal_rank_fusion", keyword_results |-> kw,
                  semantic_results |-> sem, k |-> k, returned |-> FALSE]

ReciprocalRankFusion ==
    /\ call.fn = "reciprocal_rank_fusion" /\ ~call.returned
    /\ \E order \in Orders(IdsOf(call.keyword_results) \cup IdsOf(call.semantic_results)) :
          call' = [fn |-> call.fn, keyword_results |-> call.keyword_results,
                   semantic_results |-> call.semantic_results, k |-> call.k,
                   returned |-> TRUE,
                   sorted_results |-> reciprocal_rank_fusion(call.keyword_results,
                                          call.semantic_results, call.k, order)]
    /\ UNCHANGED << pipeline_vars, search >>

NextFusion == ReciprocalRankFusion

SpecFusion == InitFusion /\ [][NextFusion]_vars

\* ------------------------------------------------------- hybrid_search
Queries == {"cat", "text"}
Modes == {"keyword", "semantic", "hybrid"}

\* the names in the categories table; a category's id is its name in the model
CategoryNames == {"animals", "vehicles"}
\* categories=None or an empty list, date_from=None, date_to=None
NoCategories == {}
NoDate == 0
NoFilters == [categories |-> NoCategories, date_from |-> NoDate, date_to |-> NoDate]
\* the filters of the calls that filter: a category photo 1 has detections
\* of, one it has none of, a name that is in no row of categories, and the
\* day of photo 2
Filters ==
    {[categories |-> {"animals"}, date_from |-> NoDate, date_to |-> NoDate],
     [categories |-> {"vehicles"}, date_from |-> NoDate, date_to |-> NoDate],
     [categories |-> {"unknown"}, date_from |-> NoDate, date_to |-> NoDate],
     [categories |-> NoCategories, date_from |-> NumPhotos, date_to |-> NumPhotos]}

\* lines 108-111 and 211-214: the ids of the categories named
CategoryIds(categories) == categories \cap CategoryNames

\* DetectedObject.tag.ilike('%query%') on the labels of the model
TagMatches(tag, query) == Lower(tag) = Lower(query)
\* OCRText.ts_vector @@ plainto_tsquery('english', query) on the texts of the model
TextMatches(extracted_text, query) == extracted_text = query
\* ts_rank of a matching text
TsRank == [num |-> 1, den |-> 10]
\* cosine distance of a photo's embedding to the embedding of the query
CosineDistance(id, query) == [num |-> id, den |-> 10]

RECURSIVE SumConfidence(_)
SumConfidence(rows) ==
    IF rows = {} THEN 0
    ELSE LET row == CHOOSE row \in rows : TRUE
         IN  row.confidence + SumConfidence(rows \ {row})

\* lines 87-130: the OCR rank plus the average tag confidence of each photo
\* with a match; the category filter is applied to the tag query
CombinedScores(db, query, categories) ==
    LET ocr_results == {row \in db.tables.ocr_texts : TextMatches(row.extracted_text, query)}
        category_ids == CategoryIds(categories)
        tag_query == {row \in db.tables.detected_objects :
                         /\ TagMatches(row.tag, query)
                         /\ categories # NoCategories /\ category_ids # {}
                               => row.category_id \in category_ids}
        tag_rows(id) == {row \in tag_query : row.photo_id = id}
        tag_results == {row.photo_id : row \in tag_query}
        all_photo_ids == {row.photo_id : row \in ocr_results} \cup tag_results
    IN  [id \in all_photo_ids |->
            Plus(IF id \in {row.photo_id : row \in ocr_results} THEN TsRank ELSE Zero,
                 IF id \in tag_results
                 THEN [num |-> SumConfidence(tag_rows(id)),
                       den |-> 100 * Cardinality(tag_rows(id))]
                 ELSE Zero)]

\* Photo.state == PhotoState.COMPLETED
CompletedIds(db, ids) == {id \in ids \cap DOMAIN db.photos : db.photos[id].state = COMPLETED}

\* Photo.created_at >= date_from, Photo.created_at <= date_to
InDateRange(db, ids, date_from, date_to) ==
    {id \in ids \cap DOMAIN db.photos :
        /\ date_from # NoDate => db.photos[id].created_at >= date_from
        /\ date_to # NoDate => db.photos[id].created_at <= date_to}

Limit(results, limit) == SubSeq(results, 1, Min(limit, Len(results)))

\* the rankings keyword_search can return: `order` is the iteration order of
\* filtered_scores
keyword_search(db, query, limit, categories, date_from, date_to) ==
    LET combined_scores == CombinedScores(db, query, categories)
        valid_photo_ids == InDateRange(db, CompletedIds(db, DOMAIN combined_scores),
                                       date_from, date_to)
    IN  {Limit(SortByScore([i \in 1..Len(order) |->
                               Entry(order[i], combined_scores[order[i]])]), limit) :
            order \in Orders(valid_photo_ids)}

\* the rankings semantic_search can return: the embeddings of the completed
\* photos in the date range that have a detection in the categories, by
\* ascending distance, equal distances in any order
semantic_search(db, query, limit, categories, date_from, date_to) ==
    LET category_ids == CategoryIds(categories)
        photo_ids_in_categories ==
            {row.photo_id : row \in {row \in db.tables.detected_objects :
                                        row.category_id \in category_ids}}
        embedded == {row.photo_id : row \in db.tables.semantic_embeddings}
        ids == InDateRange(db, CompletedIds(db, embedded), date_from, date_to)
                 \cap (IF categories # NoCategories /\ category_ids # {}
                       THEN photo_ids_in_categories ELSE embedded)
    IN  {Limit([i \in 1..Len(order) |-> Entry(order[i], CosineDistance(order[i], query))],
               limit) :
            order \in {o \in Orders(ids) :
                          \A i \in 1..Len(o) : \A j \in (i + 1)..Len(o) :
                              ~RatioLess(CosineDistance(o[j], query),
                                         CosineDistance(o[i], query))}}

\* variant: pages counted from 0
PaginateFromZero(final_results, page, page_size) ==
    LET start_idx == page * page_size
        end_idx == start_idx + page_size
    IN  [i \in 1..Max(0, Min(end_idx, Len(final_results)) - start_idx) |->
            final_results[start_idx + i].photo_id]

\* lines 299-302: final_results[start_idx:end_idx]
Paginate(final_results, page, page_size) ==
    LET start_idx == (page - 1) * page_size
        end_idx == start_idx + page_size
    IN  [i \in 1..Max(0, Min(end_idx, Len(final_results)) - start_idx) |->
            final_results[start_idx + i].photo_id]

\* next((score for pid, score in final_results if pid == photo.id), 0.0)
ScoreOf(final_results, id) ==
    IF id \in IdsOf(final_results)
    THEN final_results[CHOOSE i \in 1..Len(final_results) :
                          /\ final_results[i].photo_id = id
                          /\ \A j \in 1..(i - 1) : final_results[j].photo_id # id].score
    ELSE Zero

\* the tag sets .limit(5) can return for a photo
MatchedTags(db, id) ==
    LET rows == {row \in db.tables.detected_objects : row.photo_id = id}
    IN  {{row.tag : row \in chosen} :
            chosen \in {c \in SUBSET rows : Cardinality(c) = Min(5, Cardinality(rows))}}

\* ocr_text[0][:200] + "..." of the photo's text, None without one
NoSnippet == << >>
OcrSnippet(db, id) ==
    IF \E row \in db.tables.ocr_texts : row.photo_id = id
    THEN << (CHOOSE row \in db.tables.ocr_texts : row.photo_id = id).extracted_text, "..." >>
    ELSE NoSnippet

\* everything of the pipeline but the fault count
run_vars == << photos, tables, pc, photo_id, steps_completed, steps_failed,
              new_rows, needs_rollback, written, result, retries, overlapped >>

Database == [photos |-> photos, tables |-> tables]

\* a call that has ranked and goes on at next_pc; `raised` holds the places
\* where an exception was raised, `aborted` tells that a statement failed and
\* left the transaction of the session aborted
Ranked(s, next_pc, field, ranking, fault, place) ==
    /\ search' = [[s EXCEPT ![field] = ranking] EXCEPT
                      !.pc = next_pc,
                      !.raised = IF fault = "none" THEN @ ELSE @ \cup {place},
                      !.aborted = @ \/ fault = "abort"]
    /\ faults' = faults + (IF fault \in {"raise", "abort"} THEN 1 ELSE 0)
    /\ UNCHANGED << run_vars, call >>

\* hybrid_search has not returned
NoResponse == [returned |-> FALSE]

\* the locals of a call; page and page_size are not read before line 300 and
\* are drawn there
NewSearch(query, mode, filters) ==
    [pc |-> "start", query |-> query, mode |-> mode, categories |-> filters.categories,
     date_from |-> filters.date_from, date_to |-> filters.date_to,
     keyword_results |-> << >>, semantic_results |-> << >>,
     final_results |-> << >>, raised |-> {}, aborted |-> FALSE,
     response |-> NoResponse]

\* lines 64-166, called in the keyword and the hybrid mode: an exception is
\* caught and the ranking is empty
KeywordSearchOf(filters) ==
    /\ search.pc = "none"
    /\ \E query \in Queries : \E mode \in {"keyword", "hybrid"} : \E f \in filters :
       \E fault \in Faults({"raise", "abort"}) :
       \E ranking \in IF fault = "none"
                      THEN keyword_search(Database, query, SEARCH_TOP_K,
                                          f.categories, f.date_from, f.date_to)
                      ELSE {<< >>} :
          Ranked(NewSearch(query, mode, f),
                 IF mode = "keyword" THEN "paginate" ELSE "semantic",
                 "keyword_results", ranking, fault, "keyword_search")

\* a call without category and date filters
KeywordSearch == KeywordSearchOf({NoFilters})

\* lines 169-235, called in the semantic and the hybrid mode: an exception
\* of generate_text_embedding or of the query is caught and the ranking is
\* empty
SemanticSearchOf(filters) ==
    /\ search.pc \in {"none", "semantic"}
    /\ \E query \in Queries : \E f \in filters : \E kind \in Faults({"raise", "abort"}) :
         LET s == IF search.pc = "none" THEN NewSearch(query, "semantic", f) ELSE search
             fault == IF s.aborted THEN "aborted" ELSE kind
         IN  /\ search.pc = "semantic" =>
                   /\ query = s.query
                   /\ f = [categories |-> s.categories, date_from |-> s.date_from,
                           date_to |-> s.date_to]
             /\ s.aborted => kind = "none"
             /\ \E ranking \in IF fault = "none"
                                THEN semantic_search(Database, s.query, SEARCH_TOP_K,
                                         s.categories, s.date_from, s.date_to)
                                ELSE {<< >>} :
                   Ranked(s, "paginate", "semantic_results", ranking, fault,
                          "semantic_search")

\* lines 264-338: the final ranking of the mode, its page, the photo rows
\* of the page in the order the database returns them, and the response;
\* lines 340-349 when the fetch raises
FetchOf(pages, page_sizes) ==
    /\ search.pc = "paginate"
    /\ \E page \in pages : \E page_size \in page_sizes :
       \E kind \in Faults({"raise"}) :
       \E order \in Orders(IdsOf(search.keyword_results) \cup IdsOf(search.semantic_results)) :
         LET fault == IF search.aborted THEN "aborted" ELSE kind
             final_results ==
                 CASE search.mode = "keyword" -> search.keyword_results
                   [] search.mode = "semantic" -> search.semantic_results
                   [] OTHER -> reciprocal_rank_fusion(search.keyword_results,
                                   search.semantic_results, RRF_K, order)
             paginated_photo_ids == Paginate(final_results, page, page_size)
             found == Range(paginated_photo_ids) \cap DOMAIN photos
         IN  /\ search.aborted => kind = "none"
             /\ IF fault # "none"
                THEN search' = [search EXCEPT
                         !.pc = "done", !.final_results = final_results,
                         !.raised = @ \cup {"hybrid_search"},
                         !.response = [results |-> << >>, total |-> 0,
                                       page |-> page, page_size |-> page_size,
                                       mode |-> search.mode, error |-> TRUE]]
                ELSE \E rows \in Orders(found) :
                     \E tags \in [found -> SUBSET {"person", "cat"}] :
                       /\ \A id \in found : tags[id] \in MatchedTags(Database, id)
                       /\ search' = [search EXCEPT
                             !.pc = "done", !.final_results = final_results,
                             !.response =
                                [results |->
                                    [i \in 1..Len(rows) |->
                                        [photo_id |-> rows[i],
                                         state |-> photos[rows[i]].state,
                                         score |-> ScoreOf(final_results, rows[i]),
                                         matched_tags |-> tags[rows[i]],
                                         ocr_snippet |-> OcrSnippet(Database, rows[i])]],
                                 total |-> Len(final_results),
                                 page |-> page, page_size |-> page_size,
                                 mode |-> search.mode, error |-> FALSE]]
             /\ faults' = faults + (IF kind = "raise" THEN 1 ELSE 0)
             /\ UNCHANGED << run_vars, call >>

\* a call without category and date filters
SemanticSearch == SemanticSearchOf({NoFilters})

Fetch == FetchOf(1..MaxPage, 1..MaxPageSize)

Search == KeywordSearch \/ SemanticSearch \/ Fetch

\* one worker process and one search call at any time
NextSearch == Pipeline(1..MaxRuns, 1) \/ Search

SpecSearch == Init /\ [][NextSearch]_vars

\* one worker process and one search call with filters, for the first page
\* of the largest size
KeywordSearchFiltered == KeywordSearchOf(Filters)
SemanticSearchFiltered == SemanticSearchOf(Filters)
FetchFirstPage == FetchOf({1}, {MaxPageSize})

NextSearchFiltered ==
    Pipeline(1..MaxRuns, 1) \/ KeywordSearchFiltered \/ SemanticSearchFiltered
        \/ FetchFirstPage

SpecSearchFiltered == Init /\ [][NextSearchFiltered]_vars

\* ---------------------------------------------------------------- claims
Last(seq) == seq[Len(seq)]

\* the PhotoState a step writes when it is entered
StateOf ==
    [step \in StepSet |->
        CASE step = "preprocessing" -> PREPROCESSING
          [] step = "objects" -> PROCESSING_OBJECTS
          [] step = "embeddings" -> PROCESSING_EMBEDDINGS
          [] step = "ocr" -> PROCESSING_OCR
          [] step = "faces" -> PROCESSING_FACES
          [] step = "hash" -> PROCESSING_HASH
          [] step = "duplicates" -> CHECKING_DUPLICATES]

\* the run wrote the step's state, or recorded the step in one of its lists
Attempted(r, step) ==
    \/ StateOf[step] \in Range(written[r])
    \/ step \in steps_completed[r] \cup steps_failed[r]

\* the task returned the results of line 341
ReturnedResults(r) == pc[r] = "done" /\ result[r].error = NoError

\* the run found its photo and initialised the models
PastSetup(r) == written[r] # << >> /\ written[r][1] = PREPROCESSING

\* the run reached the final-state computation of line 323 and has ended
ReachedFinal(r) == pc[r] = "done" /\ "preprocessing" \in steps_completed[r]

\* C1: a run that reaches the final-state computation writes a terminal state
\* to the photo: Completed if no step failed, Partial if some step completed
\* and some failed, Failed if no step completed. Stated for the behaviours in
\* which no capability call misbehaves.
C1_TerminalStateRule ==
    \A r \in Runs :
        ReachedFinal(r) /\ faults = 0 =>
            /\ written[r] # << >>
            /\ steps_failed[r] = {} => Last(written[r]) = COMPLETED
            /\ steps_failed[r] # {} /\ steps_completed[r] # {} => Last(written[r]) = PARTIAL
            /\ steps_completed[r] = {} => Last(written[r]) = FAILED

\* C2: when a step raises it is recorded in steps_failed and every later step
\* is still attempted in the same run; a step is recorded as failed only after
\* it was entered, not because an earlier step failed.
C2_FailureIsolated ==
    \A r \in Runs :
        pc[r] = "done" /\ PastSetup(r) =>
            /\ \A i \in 1..Len(Steps) : \A j \in (i + 1)..Len(Steps) :
                   Steps[i] \in steps_failed[r] => Attempted(r, Steps[j])
            /\ \A step \in steps_failed[r] : StateOf[step] \in Range(written[r])

\* C3: when the preprocessing step raises, the object step and every later
\* step are still attempted, and the photo ends Partial when one of them
\* completes, Failed only when none does.
C3_PreprocessingFailureContinues ==
    \A r \in Runs :
        pc[r] = "done" /\ "preprocessing" \in steps_failed[r] =>
            /\ \A j \in 2..Len(Steps) : Attempted(r, Steps[j])
            /\ Last(written[r]) = (IF steps_completed[r] # {} THEN PARTIAL ELSE FAILED)

\* C4: a run that entered Preprocessing writes the seven stage states in
\* order, each once, whatever the outcome of the stage before, and then one
\* terminal state.
C4_StatesInOrder ==
    \A r \in Runs :
        PastSetup(r) =>
            /\ Len(written[r]) <= Len(Steps) + 1
            /\ \A i \in 1..Len(written[r]) :
                   IF i <= Len(Steps) THEN written[r][i] = StateOf[Steps[i]]
                                      ELSE written[r][i] \in TerminalStates
            /\ pc[r] = "done" => Len(written[r]) = Len(Steps) + 1

\* the rows of any table that a run inserted, committed or still in a session
RowsOfRun(r) ==
    UNION { {row \in tables[t] : row.run = r} \cup
            UNION { {row \in new_rows[q][t] : row.run = r} : q \in Runs } :
            t \in TableNames }

\* the run ended before step 1: the photo was not found or the setup raised
EndedInSetup(r) == pc[r] = "done" /\ ~PastSetup(r)

\* C5: a run that fails before any step (photo not found, or the model
\* initialisation raises) attempts no step and inserts no row; it returns
\* status failed, and when the photo exists the run writes Failed as its only
\* state and the photo carries the error message.
C5_FatalSetupFailure ==
    \A r \in Runs :
        EndedInSetup(r) =>
            /\ result[r].status = "failed"
            /\ steps_completed[r] = {} /\ steps_failed[r] = {}
            /\ RowsOfRun(r) = {}
            /\ IF photo_id[r] \in DOMAIN photos
               THEN /\ written[r] = << FAILED >>
                    /\ result[r].error = ModelInitError
                    /\ photos[photo_id[r]].error_message # NoError
                    /\ (\A q \in Runs \ {r} : photo_id[q] # photo_id[r])
                          => /\ photos[photo_id[r]].state = FAILED
                             /\ photos[photo_id[r]].error_message = ModelInitError
               ELSE /\ written[r] = << >>
                    /\ result[r].error = PhotoNotFound

C5_Witness ==
    \E r \in Runs :
        /\ EndedInSetup(r)
        /\ photo_id[r] \in DOMAIN photos
        /\ photos[photo_id[r]].state = FAILED
        /\ photos[photo_id[r]].error_message = ModelInitError

\* the rows a completed step of run r has committed
ExpectedRows(r, step) ==
    LET image == Image(photo_id[r])
        filtered == filter_detected_objects(
                        image.objects, image.image_size[1], image.image_size[2])
    IN  CASE step = "objects" ->
               [detected_objects |-> Len(filtered.objects),
                photo_tags |-> Cardinality({filtered.objects[i].tag :
                                               i \in 1..Len(filtered.objects)})]
          [] step = "embeddings" -> [semantic_embeddings |-> 1]
          [] step = "faces" -> [faces |-> image.faces]
          [] step = "hash" -> [photo_hashes |-> 1]
          [] OTHER -> << >>

\* C6: the rows a completed step committed stay in the tables, whatever
\* happens in the later steps of the run: at every moment, and so when the
\* photo ends Partial, each step in steps_completed has all its rows.
C6_CompletedStepsKeepRows ==
    \A r \in Runs : \A step \in steps_completed[r] :
        \A t \in DOMAIN ExpectedRows(r, step) :
            Cardinality({row \in tables[t] : row.run = r}) = ExpectedRows(r, step)[t]

C6_Witness ==
    \E r \in Runs :
        /\ ReturnedResults(r) /\ result[r].status = PARTIAL
        /\ "objects" \in steps_completed[r]
        /\ "hash" \in steps_failed[r]
        /\ {row \in tables.photo_tags : row.run = r} # {}

\* the committed links of the unordered pair {a, b}
Links(a, b) ==
    { d \in tables.duplicates :
        \/ d.photo_id_1 = a /\ d.photo_id_2 = b
        \/ d.photo_id_1 = b /\ d.photo_id_2 = a }

\* the two photos have committed digests within the threshold
WithinThreshold(a, b) ==
    \E ha \in tables.photo_hashes : \E hb \in tables.photo_hashes :
        /\ ha.photo_id = a /\ hb.photo_id = b
        /\ Distance(ha.pdq_hash, hb.pdq_hash) <= DUPLICATE_THRESHOLD

\* no run of the photo is under way
Settled(a) == \A r \in Runs : photo_id[r] = a => ~Active(r)

\* C7: when the runs execute one after the other, two photos whose digests
\* are within the threshold have exactly one link once the runs of both have
\* ended, whichever ran second; no pair ever has two links, also after the
\* duplicates step of one of them has run again.
C7_ExactlyOneLink ==
    \A a \in Photos : \A b \in Photos \ {a} :
        /\ Cardinality(Links(a, b)) <= 1
        /\ WithinThreshold(a, b) /\ Settled(a) /\ Settled(b)
              => Cardinality(Links(a, b)) = 1

\* the pair is linked and the duplicates step of one of the two has run again
\* on the digest that is already linked
C7_Witness ==
    \E a \in Photos : \E b \in Photos \ {a} : \E r \in Runs : \E q \in Runs \ {r} :
        /\ photo_id[r] = a /\ photo_id[q] = a
        /\ pc[r] = "done" /\ pc[q] = "done"
        /\ "duplicates" \in steps_completed[r] /\ "duplicates" \in steps_completed[q]
        /\ \E d \in Links(a, b) : d.photo_id_1 = b
        /\ Cardinality(Links(a, b)) = 1

\* C8: when the runs of two photos execute in parallel, no interleaving
\* leaves more than one link for the same unordered pair.
C8_AtMostOneLinkInParallel ==
    \A a \in Photos : \A b \in Photos \ {a} : Cardinality(Links(a, b)) <= 1

\* the committed enrichment rows of a photo
RowsOfPhoto(id) ==
    UNION { {row \in tables[t] : row.photo_id = id} :
            t \in TableNames \ {"duplicates"} }

\* C9: a run on a photo that has rows of an earlier run clears them first:
\* when the run has ended, the rows of the photo are those the run inserted.
C9_ReprocessingClearsRows ==
    \A r \in Runs :
        pc[r] = "done" /\ "preprocessing" \in steps_completed[r]
        /\ (\A q \in Runs : q > r /\ photo_id[q] = photo_id[r] => pc[q] \in {"idle", "queued"})
            => \A row \in RowsOfPhoto(photo_id[r]) : row.run = r

\* C10: a photo never has two SemanticEmbedding, two OCRText or two PhotoHash
\* rows, nor two PhotoTag rows of one tag, also after it was processed again.
C10_AtMostOneRow ==
    \A id \in Photos :
        /\ \A t \in {"semantic_embeddings", "ocr_texts", "photo_hashes"} :
               Cardinality({row \in tables[t] : row.photo_id = id}) <= 1
        /\ \A a \in tables.photo_tags : \A b \in tables.photo_tags :
               a.photo_id = id /\ b.photo_id = id /\ a.tag = b.tag => a = b

\* a second run of a photo tried to insert its rows and the database refused
C10_Witness ==
    \E r \in Runs : \E q \in Runs \ {r} :
        /\ photo_id[r] = photo_id[q] /\ photo_id[r] \in Photos
        /\ pc[r] = "done" /\ pc[q] = "done"
        /\ "embeddings" \in steps_completed[r]
        /\ steps_failed[q] # {} /\ faults = 0
        /\ \E row \in tables.semantic_embeddings : row.photo_id = photo_id[r]

\* the committed detections and tags of a photo and a label
DetectionsOf(id, tag) ==
    {d \in tables.detected_objects : d.photo_id = id /\ d.tag = tag}

TagsOf(id, tag) ==
    {t \in tables.photo_tags : t.photo_id = id /\ t.tag = tag}

\* C11: once the object step of a run has completed, every label among the
\* photo's committed DetectedObject rows has exactly one PhotoTag row of the
\* photo, and that row's confidence is the highest confidence among the
\* label's DetectedObject rows of the photo.
C11_TagIsMaxConfidence ==
    \A r \in Runs :
        "objects" \in steps_completed[r] =>
            \A d \in {x \in tables.detected_objects : x.photo_id = photo_id[r]} :
                /\ Cardinality(TagsOf(photo_id[r], d.tag)) = 1
                /\ \A t \in TagsOf(photo_id[r], d.tag) :
                       /\ \A x \in DetectionsOf(photo_id[r], d.tag) : x.confidence <= t.confidence
                       /\ \E x \in DetectionsOf(photo_id[r], d.tag) : x.confidence = t.confidence

\* a label with two committed detections of different confidence, the lower
\* one detected first
C11_Witness ==
    \E r \in Runs :
        /\ "objects" \in steps_completed[r]
        /\ \E a \in DetectionsOf(photo_id[r], "cat") :
           \E b \in DetectionsOf(photo_id[r], "cat") :
               a.idx < b.idx /\ a.confidence < b.confidence

\* C12: every committed PhotoHash row has a digest of exactly 64 hex
\* characters: a non-empty digest of another length is not stored.
C12_DigestLength ==
    \A h \in tables.photo_hashes : Len(h.pdq_hash) = PDQ_HASH_COLUMN_LENGTH

\* a call of filter_detected_objects has returned
FilterReturned == call.fn = "filter_detected_objects" /\ call.returned

\* the label of the detection is in the noisy set, whatever its case
NoisyLabel(d) == d.tag \in {"person", "Person"}

\* the part of the 10 x 10 image a box of the calls covers, in hundredths
AreaPercent(bbox) ==
    IF bbox = NoBBox THEN -1
    ELSE IF "x1" \in DOMAIN bbox THEN (bbox.x2 - bbox.x1) * (bbox.y2 - bbox.y1)
    ELSE bbox.width * bbox.height

\* the detection is noisy and under the area or the confidence minimum
UnderMinimum(d) ==
    /\ NoisyLabel(d)
    /\ \/ d.bbox # NoBBox /\ AreaPercent(d.bbox) < NOISY_TAG_MIN_AREA_RATIO
       \/ d.confidence < NOISY_TAG_MIN_CONFIDENCE

\* the detection as the input gave it, without the annotation
Plain(o) == [tag |-> o.tag, confidence |-> o.confidence, bbox |-> o.bbox]

\* how often the detection d occurs in the sequence of detections
Occurrences(d, seq) == Cardinality({i \in DOMAIN seq : Plain(seq[i]) = d})

\* C13: filter_detected_objects drops every detection whose label is in the
\* noisy set (in any case) and whose area ratio or confidence is under the
\* configured minimum: it is not in the output, and it is counted once in the
\* dropped count (the count is the number of such detections plus those cut
\* by the instance cap, and output and count add up to the input).
C13_NoisyUnderMinimumDropped ==
    FilterReturned =>
        LET in == call.detected_objects
            out == call.filtered_objects
            under == {i \in DOMAIN in : UnderMinimum(in[i])}
        IN  /\ \A i \in under : Occurrences(in[i], out) = 0
            /\ \A j \in DOMAIN out : ~UnderMinimum(Plain(out[j]))
            /\ call.filtered_out_count >= Cardinality(under)
            /\ Len(out) + call.filtered_out_count = Len(in)
            /\ Len(out) <= Len(in) - Cardinality(under)
            /\ (call.max_instances = 0 \/ Len(in) - Cardinality(under) <= call.max_instances)
                  => call.filtered_out_count = Cardinality(under)

\* a call with an upper-case noisy label under the confidence minimum, a
\* noisy detection under the area minimum and one that is kept
C13_Witness ==
    /\ FilterReturned
    /\ \E i \in DOMAIN call.detected_objects :
          LET d == call.detected_objects[i]
          IN  d.tag = "Person" /\ d.confidence < NOISY_TAG_MIN_CONFIDENCE /\ d.bbox = NoBBox
    /\ \E i \in DOMAIN call.detected_objects :
          LET d == call.detected_objects[i]
          IN  /\ d.tag = "person" /\ d.confidence = 90
              /\ d.bbox # NoBBox /\ AreaPercent(d.bbox) < NOISY_TAG_MIN_AREA_RATIO
    /\ call.filtered_out_count = 2
    /\ Len(call.filtered_objects) = 1

\* the detections of the noisy label `label` (lower case) that are not under
\* a minimum: the indexes of those in the input, and those in the output
Passing(label) ==
    {i \in DOMAIN call.detected_objects :
        LET d == call.detected_objects[i]
        IN  NoisyLabel(d) /\ Lower(d.tag) = label /\ ~UnderMinimum(d)}

Survivors(label) ==
    {j \in DOMAIN call.filtered_objects :
        NoisyLabel(call.filtered_objects[j]) /\ Lower(call.filtered_objects[j].tag) = label}

\* a comes strictly before b in the order (confidence descending, then area
\* ratio descending, no box counting as area 0)
Before(a, b) ==
    \/ a.confidence > b.confidence
    \/ /\ a.confidence = b.confidence
       /\ Max(0, AreaPercent(a.bbox)) > Max(0, AreaPercent(b.bbox))

\* exactly Min(passing, N) detections of each noisy label survive, every
\* survivor is one of the passing detections, the survivors are in the order,
\* and no detection that was cut comes before a survivor in the order
CapHolds ==
    \A label \in NOISY_DETECTION_TAGS :
        LET in == call.detected_objects
            out == call.filtered_objects
            kept == Survivors(label)
        IN  /\ Cardinality(kept) = Min(Cardinality(Passing(label)), call.max_instances)
            /\ \A j \in kept :
                   Occurrences(Plain(out[j]), out) <= Occurrences(Plain(out[j]), in)
            /\ \A j \in kept : \A k \in kept : j < k => ~Before(out[k], out[j])
            /\ \A i \in Passing(label) :
                   Occurrences(in[i], out) < Occurrences(in[i], in)
                       => \A j \in kept : ~Before(in[i], out[j])

\* C14 as stated, for every N >= 0: among the detections of a noisy label
\* that pass the minimums at most N survive, the first N in the order
\* (confidence descending, then area ratio descending).
C14_AtMostNSurvive == FilterReturned => CapHolds

\* the cap for N >= 1, the values for which the code applies it
\* (limit_noisy_instances = max_instances > 0): exactly the first N in the
\* order survive; with N = 0 the cap is off and every passing detection
\* survives.
C14_CapForPositiveN ==
    FilterReturned =>
        /\ call.max_instances >= 1 => CapHolds
        /\ call.max_instances = 0 =>
              \A label \in NOISY_DETECTION_TAGS :
                  Cardinality(Survivors(label)) = Cardinality(Passing(label))

AreaReturned == call.fn = "compute_area_ratio" /\ call.returned

\* the rectangle a box describes, as two corners
Rect(bbox) ==
    IF "x1" \in DOMAIN bbox THEN bbox
    ELSE [x1 |-> bbox.x, y1 |-> bbox.y,
          x2 |-> bbox.x + bbox.width, y2 |-> bbox.y + bbox.height]

\* the same rectangle in the other format
OtherFormat(bbox) ==
    IF "x1" \in DOMAIN bbox
    THEN [x |-> bbox.x1, y |-> bbox.y1,
          width |-> bbox.x2 - bbox.x1, height |-> bbox.y2 - bbox.y1]
    ELSE Rect(bbox)

\* the rectangle has no area: zero width or height (or corners in the wrong order)
Degenerate(r) == r.x2 <= r.x1 \/ r.y2 <= r.y1
\* the rectangle has no point inside the image
Outside(r, w, h) == r.x2 <= 0 \/ r.x1 >= w \/ r.y2 <= 0 \/ r.y1 >= h
\* the area of the intersection of the rectangle and the image
ClampedArea(r, w, h) ==
    (Min(r.x2, w) - Max(r.x1, 0)) * (Min(r.y2, h) - Max(r.y1, 0))

\* C15: compute_area_ratio returns None when the image width or height is
\* not positive; otherwise 0.0 for a box with zero width or height and for a
\* box fully outside the image; otherwise the area of the box clamped to the
\* image divided by the image area, which is in (0, 1]; and the two formats
\* of one rectangle give the same ratio.
C15_AreaRatio ==
    AreaReturned =>
        LET r == Rect(call.bbox)
            w == call.image_width
            h == call.image_height
        IN  /\ (w <= 0 \/ h <= 0) => IsNone(call.ratio)
            /\ w > 0 /\ h > 0 =>
                  /\ ~IsNone(call.ratio)
                  /\ (Degenerate(r) \/ Outside(r, w, h)) => call.ratio.num = 0
                  /\ ~(Degenerate(r) \/ Outside(r, w, h)) =>
                        /\ call.ratio.num * (w * h) = ClampedArea(r, w, h) * call.ratio.den
                        /\ 0 < call.ratio.num
                        /\ call.ratio.num <= call.ratio.den
            /\ compute_area_ratio(OtherFormat(call.bbox), w, h) = call.ratio

\* an origin+size box that sticks out of the image on two sides and covers
\* part of it
C15_Witness ==
    /\ AreaReturned
    /\ "x" \in DOMAIN call.bbox
    /\ call.image_width > 0 /\ call.image_height > 0
    /\ Rect(call.bbox).x1 < 0
    /\ Rect(call.bbox).y2 > call.image_height
    /\ 0 < call.ratio.num /\ call.ratio.num < call.ratio.den

FusionReturned == call.fn = "reciprocal_rank_fusion" /\ call.returned

\* 1/(k + rank) of the id in the ranking, 0 when the ranking does not have it
Contribution(ranking, id, k) ==
    IF \E i \in 1..Len(ranking) : ranking[i].photo_id = id
    THEN [num |-> 1,
          den |-> k + (CHOOSE i \in 1..Len(ranking) : ranking[i].photo_id = id)]
    ELSE Zero

SameValue(a, b) == a.num * b.den = b.num * a.den

\* the call of the example: keyword A then B, semantic B then C, k = 60, with
\* A = 1, B = 2, C = 3
ExampleCall ==
    /\ FusionReturned
    /\ call.k = RRF_K
    /\ [i \in 1..Len(call.keyword_results) |-> call.keyword_results[i].photo_id] = << 1, 2 >>
    /\ [i \in 1..Len(call.semantic_results) |-> call.semantic_results[i].photo_id] = << 2, 3 >>

\* C16: reciprocal_rank_fusion returns every id of the two rankings exactly
\* once, with the score sum of 1/(k + rank) over the rankings that have the
\* id, in descending order of score; in the example B is first, with a score
\* above those of A and C.
C16_FusedRanking ==
    FusionReturned =>
        LET out == call.sorted_results
            ids == IdsOf(call.keyword_results) \cup IdsOf(call.semantic_results)
        IN  /\ Len(out) = Cardinality(ids)
            /\ IdsOf(out) = ids
            /\ \A i \in 1..Len(out) :
                   SameValue(out[i].score,
                             Plus(Contribution(call.keyword_results, out[i].photo_id, call.k),
                                  Contribution(call.semantic_results, out[i].photo_id, call.k)))
            /\ \A i \in 1..Len(out) : \A j \in (i + 1)..Len(out) :
                   ~RatioLess(out[i].score, out[j].score)
            /\ ExampleCall =>
                   /\ out[1].photo_id = 2
                   /\ SameValue(out[1].score, [num |-> 61 + 62, den |-> 61 * 62])
                   /\ RatioLess(out[2].score, out[1].score)
                   /\ RatioLess(out[3].score, out[1].score)

\* the example call has returned, with the ids iterated in the order A, C, B
C16_Witness ==
    /\ ExampleCall
    /\ Len(call.sorted_results) = 3
    /\ call.sorted_results[1].photo_id = 2
    /\ call.sorted_results[2].photo_id = 1

\* hybrid_search has returned a response without 'error'
SearchReturned == search.pc = "done" /\ ~search.response.error

\* the positions of the final ranking that page p of size s covers
PagePositions(p, s, length) == {i \in 1..length : (p - 1) * s + 1 <= i /\ i <= p * s}

\* the place of a photo in the final ranking
PositionOf(id) ==
    CHOOSE i \in 1..Len(search.final_results) : search.final_results[i].photo_id = id

\* C17: the response of hybrid_search for page p and page size s holds
\* exactly the items at positions (p-1)*s+1 .. p*s of the final ranking,
\* fewer or none past its end, each once, and its total is the length of the
\* whole final ranking.
C17_PageOfFinalRanking ==
    SearchReturned =>
        LET response == search.response
            positions == PagePositions(response.page, response.page_size,
                                       Len(search.final_results))
        IN  /\ IdsOf(response.results)
                  = {search.final_results[i].photo_id : i \in positions}
            /\ Len(response.results) = Cardinality(positions)
            /\ response.total = Len(search.final_results)

\* the second page of size 1 of a ranking of two photos
C17_Witness ==
    /\ SearchReturned
    /\ Len(search.final_results) = 2
    /\ search.response.page = 2 /\ search.response.page_size = 1
    /\ Len(search.response.results) = 1
    /\ search.response.results[1].photo_id = search.final_results[2].photo_id
    /\ search.response.total = 2

\* C18: the results of a response are in the order of the final ranking of
\* the mode: of two results the one earlier in the ranking comes first.
C18_ResultsInRankingOrder ==
    SearchReturned =>
        \A i \in 1..Len(search.response.results) :
            \A j \in (i + 1)..Len(search.response.results) :
                PositionOf(search.response.results[i].photo_id)
                    < PositionOf(search.response.results[j].photo_id)

\* C19: every photo that is ranked, counted or returned by a search is in
\* state Completed when the search reads it, also while a pipeline run is
\* writing.
C19_OnlyCompletedReturned ==
    SearchReturned =>
        \A i \in 1..Len(search.response.results) :
            search.response.results[i].state = COMPLETED

\* C20: a search call in which an exception was raised returns an empty
\* result list, total 0 and the error indicator.
C20_FailureGivesErrorResponse ==
    search.pc = "done" /\ search.raised # {} =>
        /\ search.response.error
        /\ search.response.results = << >>
        /\ search.response.total = 0

\* the capabilities find nothing in the photo: no detections, no text, no faces
NothingFound(id) ==
    /\ Image(id).objects = << >>
    /\ StrippedLen(Image(id).text) = 0
    /\ Image(id).faces = 0

\* run r is the only run of its photo that has started, no capability call
\* has misbehaved, and no other photo has a hash row
AloneInCorpus(r) ==
    /\ faults = 0
    /\ \A q \in Runs \ {r} : photo_id[q] = photo_id[r] => pc[q] \in {"idle", "queued"}
    /\ \A h \in tables.photo_hashes : h.photo_id = photo_id[r]

\* C21: a run on a photo with no detections, no text, no faces and a valid
\* digest of 64 characters, while no other photo has a hash row, ends with
\* the photo Completed, no photo_tags row and no duplicates row.
C21_EmptyItemCompletes ==
    \A r \in Runs :
        /\ pc[r] = "done" /\ photo_id[r] \in Photos
        /\ NothingFound(photo_id[r]) /\ AloneInCorpus(r)
        => /\ photos[photo_id[r]].state = COMPLETED
           /\ Last(written[r]) = COMPLETED
           /\ result[r].status = COMPLETED
           /\ steps_completed[r] = StepSet /\ steps_failed[r] = {}
           /\ \A row \in tables.photo_tags : row.photo_id # photo_id[r]
           /\ tables.duplicates = {}

\* such a run has ended and its digest of 64 characters is stored
C21_Witness ==
    \E r \in Runs :
        /\ pc[r] = "done" /\ photo_id[r] \in Photos
        /\ NothingFound(photo_id[r]) /\ AloneInCorpus(r)
        /\ \E h \in tables.photo_hashes :
              h.photo_id = photo_id[r] /\ Len(h.pdq_hash) = PDQ_HASH_COLUMN_LENGTH

\* the bit positions (of 4) in which two hex digits differ
DigitBits(a, b) ==
    Cardinality({i \in 0..3 : ((a \div (2 ^ i)) % 2) # ((b \div (2 ^ i)) % 2)})

RECURSIVE BitDistanceFrom(_, _, _)
BitDistanceFrom(h1, h2, i) ==
    IF i > Len(h1) THEN 0
    ELSE DigitBits(h1[i], h2[i]) + BitDistanceFrom(h1, h2, i + 1)

\* the Hamming distance of two digests of equal length: the bit positions
\* in which they differ
BitDistance(h1, h2) == BitDistanceFrom(h1, h2, 1)

\* C22: a link is inserted for the current photo and another one exactly
\* when the number of differing bits of their digests is at most the
\* threshold and the pair has no link; the link stores that bit count.
C22_LinkIffBitDistance ==
    \A h1 \in tables.photo_hashes : \A h2 \in tables.photo_hashes :
        /\ h1.photo_id # h2.photo_id
        /\ Len(h1.pdq_hash) = PDQ_HASH_COLUMN_LENGTH
        /\ Len(h2.pdq_hash) = PDQ_HASH_COLUMN_LENGTH
        => \A d \in Links(h1.photo_id, h2.photo_id) :
              /\ BitDistance(h1.pdq_hash, h2.pdq_hash) <= DUPLICATE_THRESHOLD
              /\ d.hamming_distance = BitDistance(h1.pdq_hash, h2.pdq_hash)

\* the photo has a detection whose category is one of those named
HasCategory(id, categories) ==
    \E row \in tables.detected_objects :
        row.photo_id = id /\ row.category_id \in categories

\* C23: every photo a search returns satisfies the filters of the request:
\* with a category list it has a detection in one of the categories, with a
\* date range it was created within the range.
C23_ResultsSatisfyFilters ==
    SearchReturned =>
        \A i \in 1..Len(search.response.results) :
            LET id == search.response.results[i].photo_id
            IN  /\ search.categories # NoCategories => HasCategory(id, search.categories)
                /\ search.date_from # NoDate => photos[id].created_at >= search.date_from
                /\ search.date_to # NoDate => photos[id].created_at <= search.date_to

\* the run ended by an exception raised outside the handlers of the stages:
\* the models failed to initialise, image_data was read unbound on line 100,
\* or the final state could not be written
JobLevelFailure(r) ==
    pc[r] = "done" /\ result[r].error \in {ModelInitError, UnboundImageData, PendingRollback}

\* a run is retried at most max_retries times
RetriesBounded == \A r \in Runs : retries[r] <= max_retries

\* C24: a run that crashes outside the handlers of the stages ends as a
\* failed task (the exception leaves the task), and the job system retries a
\* failed task at most 3 times.
C24_JobFailureSurfacedAndRetried ==
    /\ \A r \in Runs : JobLevelFailure(r) => result[r].status = "raised"
    /\ RetriesBounded

\* the step of run r through the text stage
TextStage(r) == pc[r] = "ocr" /\ pc'[r] = "faces"

\* extract_text was called in that step and returned t
TextReturned(r, t) ==
    /\ ~update_photo_state(Session(r), photo_id[r], PROCESSING_OCR, NoError).raised
    /\ \/ faults' = faults /\ t = Image(photo_id[r]).text
       \/ faults' # faults /\ "ocr" \in steps_completed'[r] /\ t = NoText

\* the ocr_texts rows run r has committed after the step
TextRowsAfter(r) == {o \in tables'.ocr_texts : o.run = r}

\* the stage is recorded as completed after the step
TextCompleted(r) == "ocr" \in steps_completed'[r] /\ "ocr" \notin steps_failed'[r]

\* C25: when extract_text returns no text or blank text the text stage commits
\* no ocr_texts row and is completed; when it returns text that is not blank
\* the stage commits exactly one ocr_texts row with that text and is completed.
C25_TextStage ==
    [][\A r \in Runs : \A t \in {NoText, " ", "text"} :
          TextStage(r) /\ TextReturned(r, t) =>
             IF t = NoText \/ StrippedLen(t) = 0
             THEN TextRowsAfter(r) = {} /\ TextCompleted(r)
             ELSE /\ Cardinality(TextRowsAfter(r)) = 1
                  /\ \A o \in TextRowsAfter(r) :
                        o.photo_id = photo_id[r] /\ o.extracted_text = t
                  /\ new_rows'[r].ocr_texts = {}
                  /\ TextCompleted(r)]_vars

\* the same for the runs of photos that have no ocr_texts row yet
C25_TextStageFirstRow ==
    [][\A r \in Runs : \A t \in {NoText, " ", "text"} :
          TextStage(r) /\ TextReturned(r, t) /\ {o \in tables.ocr_texts : o.photo_id = photo_id[r]} = {} =>
             IF t = NoText \/ StrippedLen(t) = 0
             THEN TextRowsAfter(r) = {} /\ TextCompleted(r)
             ELSE /\ Cardinality(TextRowsAfter(r)) = 1
                  /\ TextCompleted(r)]_vars

\* the fields of a detection in the output
AnnotatedFields == {"tag", "confidence", "bbox", "area_ratio"}

\* C26: filter_detected_objects partitions its input: the output holds input
\* detections only, each at most as often as the input gave it and with its
\* label, confidence and box unchanged and the area ratio added; the dropped
\* count is the number of input detections missing from the output; and every
\* detection whose label is not noisy is in the output.
C26_FilterPartitions ==
    FilterReturned =>
        LET in == call.detected_objects
            out == call.filtered_objects
        IN  /\ \A j \in DOMAIN out :
                   /\ DOMAIN out[j] = AnnotatedFields
                   /\ Occurrences(Plain(out[j]), in) >= Occurrences(Plain(out[j]), out)
                   /\ out[j].area_ratio =
                          compute_area_ratio(out[j].bbox, call.image_width, call.image_height)
            /\ call.filtered_out_count = Len(in) - Len(out)
            /\ call.filtered_out_count >= 0
            /\ \A i \in DOMAIN in :
                   ~NoisyLabel(in[i]) => Occurrences(in[i], out) = Occurrences(in[i], in)

\* a call whose input holds a cat of low confidence in a small box, which is
\* in the output, a person that is dropped and a person that is kept
C26_Witness ==
    /\ FilterReturned
    /\ Len(call.detected_objects) = 3
    /\ \E i \in DOMAIN call.detected_objects :
          LET d == call.detected_objects[i]
          IN  /\ d.tag = "cat" /\ d.confidence < NOISY_TAG_MIN_CONFIDENCE
              /\ d.bbox # NoBBox /\ AreaPercent(d.bbox) < NOISY_TAG_MIN_AREA_RATIO
              /\ Occurrences(d, call.filtered_objects) = 1
    /\ \E j \in DOMAIN call.filtered_objects : call.filtered_objects[j].tag = "person"
    /\ call.filtered_out_count = 1

\* the names the seven stages append to the two lists
SevenStages == {Steps[i] : i \in DOMAIN Steps}

\* C27: when a run reaches the computation of the final state, each of the
\* seven stages is in exactly one of steps_completed and steps_failed.
C27_EveryStageInOneList ==
    \A r \in Runs :
        pc[r] = "final" =>
            /\ steps_completed[r] \cap steps_failed[r] = {}
            /\ steps_completed[r] \cup steps_failed[r] = SevenStages

\* the tables a stage adds rows to
TablesOfStage(step) ==
    CASE step = "objects" -> {"photo_tags", "detected_objects"}
      [] step = "embeddings" -> {"semantic_embeddings"}
      [] step = "ocr" -> {"ocr_texts"}
      [] step = "faces" -> {"faces"}
      [] step = "hash" -> {"photo_hashes"}
      [] step = "duplicates" -> {"duplicates"}
      [] OTHER -> {}

\* C28: no row that a stage added to the session before it was recorded in
\* steps_failed is ever committed: the database holds no row of a stage of a
\* run that has the stage in steps_failed.
C28_FailedStageRowsNotPersisted ==
    \A r \in Runs : \A step \in steps_failed[r] : \A t \in TablesOfStage(step) :
        {row \in tables[t] : row.run = r} = {}

\* two runs of the photo id have ended and no capability call misbehaved
TwoRunsEnded(id) ==
    /\ faults = 0
    /\ \E r1 \in Runs : \E r2 \in Runs \ {r1} :
          photo_id[r1] = id /\ photo_id[r2] = id /\ pc[r1] = "done" /\ pc[r2] = "done"

\* the photo is completed and holds the detections and faces of one run
OneRunsWorth(id) ==
    LET image == Image(id)
        filtered == filter_detected_objects(
                        image.objects, image.image_size[1], image.image_size[2])
    IN  /\ photos[id].state = COMPLETED
        /\ Cardinality({o \in tables.detected_objects : o.photo_id = id})
              = Len(filtered.objects)
        /\ Cardinality({f \in tables.faces : f.photo_id = id}) = image.faces

\* C29: when two runs of the same photo have executed at the same time and
\* every capability call succeeded, then once both have ended the photo is
\* completed and holds exactly one run's detected_objects and faces rows.
C29_InterleavedRunsComplete ==
    \A id \in Photos : id \in overlapped /\ TwoRunsEnded(id) => OneRunsWorth(id)

\* C30: a photo in state completed carries no error message.
C30_CompletedHasNoError ==
    \A id \in Photos : photos[id].state = COMPLETED => photos[id].error_message = NoError

====
